---- MODULE Spec2Model ----
(***************************************************************************)
(* Model of maddy's PAM bridge: the four revisions of the engine           *)
(*   internal : src/internal/auth/pam/pam.c     (callback copies password) *)
(*   helper   : src/cmd/maddy-pam-helper/pam.c  (engine hands its reply)   *)
(*   legacy   : src/auth/pam/pam.c              (helper without acct_mgmt) *)
(*   process  : src/cmd/maddy-pam-helper/main.c (stdin -> exit code)       *)
(* libpam is the opaque backend: its result codes, the number of prompts   *)
(* it issues and the outcome of malloc are chosen nondeterministically.    *)
(***************************************************************************)
EXTENDS Integers, Sequences, FiniteSets, TLC

\* ---- bounds ----
MaxInput == 3      \* longest standard-input stream, in characters
MaxStr == 1        \* longest username / password of an embedded call
MaxPrompts == 2    \* most prompts the backend issues in one verification
MaxChunks == 3     \* most heap chunks two concurrent calls have between them

NULL == "NULL"
Variants == {"internal", "helper", "legacy", "process"}
Chars == {"a", "b", "\n"}
TextChars == {"a", "b"}

RECURSIVE SeqsUpTo(_, _)
SeqsUpTo(S, n) ==
    IF n = 0 THEN {<<>>}
    ELSE LET shorter == SeqsUpTo(S, n - 1)
         IN  shorter \cup {Append(s, c) : s \in {t \in shorter : Len(t) = n - 1}, c \in S}

\* ---- the backend's result codes (security/pam_appl.h) ----
PAM_SUCCESS == "PAM_SUCCESS"
PAM_AUTH_ERR == "PAM_AUTH_ERR"
PAM_USER_UNKNOWN == "PAM_USER_UNKNOWN"
PAM_NEW_AUTHTOK_REQD == "PAM_NEW_AUTHTOK_REQD"
PAM_ACCT_EXPIRED == "PAM_ACCT_EXPIRED"
PAM_PERM_DENIED == "PAM_PERM_DENIED"
PAM_CONV_ERR == "PAM_CONV_ERR"
PAM_SYSTEM_ERR == "PAM_SYSTEM_ERR"
PAM_BUF_ERR == "PAM_BUF_ERR"
PAM_ABORT == "PAM_ABORT"
PAM_AUTHINFO_UNAVAIL == "PAM_AUTHINFO_UNAVAIL"
PAM_MAXTRIES == "PAM_MAXTRIES"

StartCodes == {PAM_SUCCESS, PAM_ABORT, PAM_BUF_ERR, PAM_SYSTEM_ERR}
AuthCodes == {PAM_SUCCESS, PAM_AUTH_ERR, PAM_USER_UNKNOWN, PAM_AUTHINFO_UNAVAIL,
              PAM_MAXTRIES, PAM_CONV_ERR, PAM_ABORT}
AcctCodes == {PAM_SUCCESS, PAM_ACCT_EXPIRED, PAM_AUTH_ERR, PAM_NEW_AUTHTOK_REQD,
              PAM_PERM_DENIED, PAM_USER_UNKNOWN}
EndCodes == {PAM_SUCCESS, PAM_SYSTEM_ERR}

\* `PAM_SILENT|PAM_DISALLOW_NULL_AUTHTOK`, the flags of both steps
AuthFlagsSilentOnly == {"PAM_SILENT"}
AuthFlags == {"PAM_SILENT", "PAM_DISALLOW_NULL_AUTHTOK"}

\* PAM_DISALLOW_NULL_AUTHTOK as the backend honours it: given the flag, an
\* empty credential never verifies
BackendMayAccept(flags, pw) == "PAM_DISALLOW_NULL_AUTHTOK" \notin flags \/ pw # <<>>

\* pam_strerror: the backend's text for a result code; the handle is ignored.
pam_strerror(status) ==
    CASE status = PAM_SUCCESS -> "Success"
      [] status = PAM_AUTH_ERR -> "Authentication failure"
      [] status = PAM_USER_UNKNOWN -> "User not known to the underlying authentication module"
      [] status = PAM_NEW_AUTHTOK_REQD -> "Authentication token is no longer valid; new one required"
      [] status = PAM_ACCT_EXPIRED -> "User account has expired"
      [] status = PAM_PERM_DENIED -> "Permission denied"
      [] status = PAM_CONV_ERR -> "Conversation error"
      [] status = PAM_SYSTEM_ERR -> "System error"
      [] status = PAM_BUF_ERR -> "Memory buffer error"
      [] status = PAM_ABORT -> "Critical error - immediate abort"
      [] status = PAM_AUTHINFO_UNAVAIL -> "Authentication service cannot retrieve authentication info"
      [] status = PAM_MAXTRIES -> "Have exhausted maximum number of retries for service"

\* ---- which revision does what ----
ProcessShape(v) == v = "process"
CopyingConv(v) == v = "internal"
HasAcctMgmt(v) == v \in {"internal", "helper"}

VARIABLES
    variant,        \* which revision of the engine runs this attempt
    pc,             \* position in run_pam_auth / run
    stdin,          \* unread rest of standard input (process shape)
    lines,          \* the lines getline returned, as read
    username,       \* C string in the username buffer
    password,       \* C string in the password buffer
    username_len,   \* getline's return value for the username
    password_len,   \* getline's return value for the password
    password_buf,   \* heap index of the password buffer (0: none)
    heap,           \* allocations: [kind, frees, resp]
    reply,          \* the engine's struct pam_response* (0: NULL)
    local_auth,     \* session handle: "null", "open", "closed"
    status,         \* last backend status code
    prompts,        \* prompts the backend still issues in this verification
    convLog,        \* what conv_func returned, per invocation
    events,         \* backend calls made, in order
    ret,            \* error_obj returned / exit code
    stderr,         \* lines written to standard error
    conc            \* two concurrent embedded calls: per-call state and their heap

vars == <<variant, pc, stdin, lines, username, password, username_len, password_len,
          password_buf, heap, reply, local_auth, status, prompts, convLog, events,
          ret, stderr, conc>>

NoRet == [status |-> -1, func_name |-> NULL, error_msg |-> NULL]

\* struct error_obj as filled in by a return block
ErrorObj(st, fn, msg) == [status |-> st, func_name |-> fn, error_msg |-> msg]

\* one heap object
Obj(kind, resp) == [kind |-> kind, frees |-> 0, resp |-> resp]

\* a backend call, as seen by the backend: the operation, the state of the
\* handle it was given, its result code, its flags and its text argument
Event(op, h, rc, flags, arg) == [op |-> op, h |-> h, rc |-> rc, flags |-> flags, arg |-> arg]

\* the concurrent callers of run_pam_auth, and conc while nobody calls
Threads == {1, 2}
ConcIdle ==
    [pc |-> [t \in Threads |-> "idle"],
     password |-> [t \in Threads |-> <<>>],
     reply |-> [t \in Threads |-> 0],
     appdata |-> [t \in Threads |-> 0],
     released |-> [t \in Threads |-> FALSE],
     conv_err |-> [t \in Threads |-> FALSE],
     prompts |-> [t \in Threads |-> 0],
     supplied |-> [t \in Threads |-> <<>>],
     ret |-> [t \in Threads |-> NoRet],
     heap |-> <<>>]

EntryPc(v) ==
    CASE v = "process" -> "getline_username"
      [] v = "internal" -> "pam_start"
      [] OTHER -> "malloc"

Init ==
    /\ variant \in Variants
    /\ pc = EntryPc(variant)
    /\ IF ProcessShape(variant)
       THEN /\ stdin \in SeqsUpTo(Chars, MaxInput)
            /\ username = <<>>
            /\ password = <<>>
            /\ password_buf = 0
            /\ heap = <<>>
       ELSE /\ stdin = <<>>
            /\ username \in SeqsUpTo(TextChars, MaxStr)
            /\ password \in SeqsUpTo(TextChars, MaxStr)
            /\ password_buf = 1
            /\ heap = <<Obj("password", 0)>>
    /\ lines = <<>>
    /\ username_len = 0
    /\ password_len = 0
    /\ reply = 0
    /\ local_auth = "null"
    /\ status = PAM_SUCCESS
    /\ prompts = 0
    /\ convLog = <<>>
    /\ events = <<>>
    /\ ret = NoRet
    /\ stderr = <<>>
    /\ conc = ConcIdle

\* ---- standard input (process shape) ----

\* index of the first line terminator of s, 0 if there is none
NlPos(s) ==
    IF \E i \in 1..Len(s) : s[i] = "\n"
    THEN CHOOSE i \in 1..Len(s) : s[i] = "\n" /\ \A j \in 1..(i - 1) : s[j] # "\n"
    ELSE 0

\* getline(3): the next line with its terminator, or whatever is left before
\* end of stream; -1 at end of stream or on an I/O error
getline(stream, ioerr) ==
    IF ioerr \/ stream = <<>>
    THEN [len |-> -1, line |-> <<>>, rest |-> stream]
    ELSE LET n == IF NlPos(stream) = 0 THEN Len(stream) ELSE NlPos(stream)
         IN  [len |-> n, line |-> SubSeq(stream, 1, n), rest |-> SubSeq(stream, n + 1, Len(stream))]

\* `if (username_len < 0)` / `if (password_len < 0)`
ReadFailedEq0(len) == len = 0
ReadFailed(len) == len < 0

\* `buf[len-1] = 0` under `if (len > 0)`: the C string loses its last byte
CutTrailing(text, len) ==
    IF len > 0 THEN SubSeq(text, 1, len - 1) ELSE text

\* perror(prefix)
perror(prefix) == <<prefix, "strerror(errno)">>

\* the exit code of run, in the shape of ret
ExitCode(n) == [status |-> n, func_name |-> NULL, error_msg |-> NULL]

GetlineUsername ==
    /\ pc = "getline_username"
    /\ \E ioerr \in BOOLEAN :
         LET r == getline(stdin, ioerr) IN
         /\ username_len' = r.len
         /\ username' = r.line
         /\ stdin' = r.rest
         /\ IF ReadFailed(r.len)
            THEN /\ stderr' = Append(stderr, perror("getline username"))
                 /\ ret' = ExitCode(2)
                 /\ pc' = "done"
                 /\ lines' = lines
            ELSE /\ stderr' = stderr
                 /\ ret' = ret
                 /\ pc' = "getline_password"
                 /\ lines' = Append(lines, r.line)
    /\ UNCHANGED <<conc, variant, password, password_len, password_buf, heap, reply,
                   local_auth, status, prompts, convLog, events>>

GetlinePassword ==
    /\ pc = "getline_password"
    /\ \E ioerr \in BOOLEAN :
         LET r == getline(stdin, ioerr) IN
         /\ password_len' = r.len
         /\ password' = r.line
         /\ stdin' = r.rest
         /\ heap' = Append(heap, Obj("password", 0))
         /\ password_buf' = Len(heap) + 1
         /\ IF ReadFailed(r.len)
            THEN /\ stderr' = Append(stderr, perror("getline password"))
                 /\ ret' = ExitCode(2)
                 /\ pc' = "done"
                 /\ lines' = lines
            ELSE /\ stderr' = stderr
                 /\ ret' = ret
                 /\ pc' = "cut"
                 /\ lines' = Append(lines, r.line)
    /\ UNCHANGED <<conc, variant, username, username_len, reply, local_auth, status,
                   prompts, convLog, events>>

\* "Cut trailing \n."
CutTrailingNewlines ==
    /\ pc = "cut"
    /\ username' = CutTrailing(username, username_len)
    /\ password' = CutTrailing(password, password_len)
    /\ pc' = "pam_start"
    /\ UNCHANGED <<conc, variant, stdin, lines, username_len, password_len, password_buf,
                   heap, reply, local_auth, status, prompts, convLog, events, ret, stderr>>

\* ---- the engine's return blocks ----

\* `if (status != PAM_SUCCESS)` after each backend step
FailedNever(st) == FALSE
Failed(st) == st # PAM_SUCCESS

\* embedded: `reply == NULL` after malloc
MallocErr == ErrorObj(2, "malloc", "Out of memory")

\* embedded: `status != PAM_SUCCESS` after pam_start
StartErrNamesPassword(st) ==
    ErrorObj(2, "pam_start", IF password = <<>> THEN "empty password" ELSE pam_strerror(st))
StartErr(st) == ErrorObj(2, "pam_start", pam_strerror(st))

\* `status == PAM_AUTH_ERR || status == PAM_USER_UNKNOWN` after pam_authenticate
AuthRejectedOnlyAuthErr(st) == st = PAM_AUTH_ERR
AuthRejectedMaxTries(st) == st = PAM_AUTH_ERR \/ st = PAM_USER_UNKNOWN \/ st = PAM_MAXTRIES
AuthRejected(st) == st = PAM_AUTH_ERR \/ st = PAM_USER_UNKNOWN

\* embedded: `status != PAM_SUCCESS` after pam_authenticate
AuthErr(st) ==
    ErrorObj(IF AuthRejected(st) THEN 1 ELSE 2, "pam_authenticate", pam_strerror(st))

\* `status == PAM_AUTH_ERR || ... || status == PAM_NEW_AUTHTOK_REQD` after pam_acct_mgmt
AcctRejected(st) == st = PAM_AUTH_ERR \/ st = PAM_USER_UNKNOWN \/ st = PAM_NEW_AUTHTOK_REQD

\* embedded: `status != PAM_SUCCESS` after pam_acct_mgmt
AcctErr(st) ==
    ErrorObj(IF AcctRejected(st) THEN 1 ELSE 2, "pam_acct_mgmt", pam_strerror(st))

\* embedded: `status != PAM_SUCCESS` after pam_end
EndErrAsStart(st) == ErrorObj(2, "pam_start", pam_strerror(st))
EndErr(st) == ErrorObj(2, "pam_end", pam_strerror(st))

\* embedded: the final return
SuccessFieldsLeft == ErrorObj(0, "pam_end", pam_strerror(PAM_SUCCESS))
Success == ErrorObj(0, NULL, NULL)

\* process: each return of run as [code, err]; err is the line written to
\* standard error, <<>> when nothing is written
RunStartFail(st) == [code |-> 2, err |-> <<"pam_start", pam_strerror(st)>>]
RunMallocFail == [code |-> 2, err |-> <<"malloc returned NULL">>]
RunAuthFailVerbose(st) ==
    [code |-> IF AuthRejected(st) THEN 1 ELSE 2, err |-> <<"pam_authenticate", pam_strerror(st)>>]
RunAuthFail(st) ==
    IF AuthRejected(st)
    THEN [code |-> 1, err |-> <<>>]
    ELSE [code |-> 2, err |-> <<"pam_authenticate", pam_strerror(st)>>]
RunEndFail(st) == [code |-> 2, err |-> <<"pam_end", pam_strerror(st)>>]
RunSuccess == [code |-> 0, err |-> <<>>]

\* the return of run_pam_auth (embedded) or run (process): sets ret and stderr
Return(obj, r) ==
    IF ProcessShape(variant)
    THEN /\ ret' = ExitCode(r.code)
         /\ stderr' = IF r.err = <<>> THEN stderr ELSE Append(stderr, r.err)
    ELSE /\ ret' = obj
         /\ stderr' = stderr

\* ---- the heap ----

\* the backend releases a response it was handed: the structure and the
\* string its resp field points to ("PAM frees pam_response for us")
Release(h, r) ==
    LET h1 == [h EXCEPT ![r].frees = @ + 1]
    IN  IF h[r].resp = 0 THEN h1 ELSE [h1 EXCEPT ![h[r].resp].frees = @ + 1]

\* ---- the engine ----

\* `reply = malloc(sizeof(struct pam_response))`, before pam_start in the
\* embedded revisions, after it in the process revision
MallocReply ==
    /\ pc = "malloc"
    /\ \E ok \in BOOLEAN :
         IF ok
         THEN /\ heap' = Append(heap, Obj("response", password_buf))
              /\ reply' = Len(heap) + 1
              /\ pc' = IF ProcessShape(variant) THEN "pam_authenticate" ELSE "pam_start"
              /\ UNCHANGED <<ret, stderr>>
         ELSE /\ heap' = heap
              /\ reply' = 0
              /\ pc' = "done"
              /\ Return(MallocErr, RunMallocFail)
    /\ UNCHANGED <<conc, variant, stdin, lines, username, password, username_len, password_len,
                   password_buf, local_auth, status, prompts, convLog, events>>

PamStart ==
    /\ pc = "pam_start"
    /\ \E rc \in StartCodes :
         /\ status' = rc
         /\ IF Failed(rc)
            THEN /\ local_auth' = "null"
                 /\ events' = events \o <<Event("pam_start", "null", rc, {}, username),
                                          Event("pam_strerror", "null", rc, {}, <<>>)>>
                 /\ pc' = "done"
                 /\ Return(StartErr(rc), RunStartFail(rc))
            ELSE /\ local_auth' = "open"
                 /\ events' = Append(events, Event("pam_start", "null", rc, {}, username))
                 /\ pc' = IF ProcessShape(variant) THEN "malloc" ELSE "pam_authenticate"
                 /\ UNCHANGED <<ret, stderr>>
    /\ UNCHANGED <<conc, variant, stdin, lines, username, password, username_len, password_len,
                   password_buf, heap, reply, prompts, convLog>>

\* pam_authenticate is entered: the backend decides how often it will prompt
PamAuthenticate ==
    /\ pc = "pam_authenticate"
    /\ \E n \in 0..MaxPrompts : prompts' = n
    /\ events' = Append(events, Event("pam_authenticate", local_auth, "pending", AuthFlags, <<>>))
    /\ pc' = "in_authenticate"
    /\ UNCHANGED <<conc, variant, stdin, lines, username, password, username_len, password_len,
                   password_buf, heap, reply, local_auth, status, convLog, ret, stderr>>

ConvFailed == convLog # <<>> /\ convLog[Len(convLog)].rc # PAM_SUCCESS

\* one invocation of conv_func, as [rc, resp, heap]: the return code, the
\* response stored through *resp (0: none) and the heap afterwards
conv_func_copy(h, ok1, ok2) ==
    IF ~ok1 THEN [rc |-> PAM_CONV_ERR, resp |-> 0, heap |-> h]
    ELSE IF ~ok2 THEN [rc |-> PAM_CONV_ERR, resp |-> 0, heap |-> Append(h, Obj("response", 0))]
    ELSE [rc |-> PAM_SUCCESS, resp |-> Len(h) + 1,
          heap |-> h \o <<Obj("response", Len(h) + 2), Obj("pwcopy", 0)>>]

conv_func_handover(h, appdata) == [rc |-> PAM_SUCCESS, resp |-> appdata, heap |-> h]

\* the backend prompts: conv_func runs, and the backend consumes and releases
\* the response.  A response it already released is a dangling pointer: the
\* backend either goes on (releasing it again) or the process is aborted.
ConvFunc ==
    /\ pc = "in_authenticate"
    /\ prompts > 0
    /\ ~ConvFailed
    /\ prompts' = prompts - 1
    /\ \E ok1, ok2 \in BOOLEAN, abort \in BOOLEAN :
         LET c == IF CopyingConv(variant)
                  THEN conv_func_copy(heap, ok1, ok2)
                  ELSE conv_func_handover(heap, reply)
             stale == c.resp # 0 /\ c.heap[c.resp].frees > 0
         IN  /\ convLog' = Append(convLog, [rc |-> c.rc, resp |-> c.resp,
                                            text |-> password, stale |-> stale])
             /\ heap' = IF c.rc = PAM_SUCCESS /\ c.resp # 0 THEN Release(c.heap, c.resp) ELSE c.heap
             /\ pc' = IF stale /\ abort THEN "aborted" ELSE pc
    /\ UNCHANGED <<conc, variant, stdin, lines, username, password, username_len, password_len,
                   password_buf, reply, local_auth, status, events, ret, stderr>>

\* pam_authenticate returns, and the engine classifies its status
PamAuthenticateReturn ==
    /\ pc = "in_authenticate"
    /\ prompts = 0 \/ ConvFailed
    /\ \E rc \in AuthCodes :
         /\ ConvFailed => rc # PAM_SUCCESS
         /\ rc = PAM_SUCCESS => BackendMayAccept(events[Len(events)].flags, password)
         /\ status' = rc
         /\ IF Failed(rc)
            THEN /\ events' = [events EXCEPT ![Len(events)].rc = rc]
                                \o (IF ProcessShape(variant) /\ AuthRejected(rc) THEN <<>>
                                    ELSE <<Event("pam_strerror", local_auth, rc, {}, <<>>)>>)
                 /\ pc' = "done"
                 /\ Return(AuthErr(rc), RunAuthFail(rc))
            ELSE /\ events' = [events EXCEPT ![Len(events)].rc = rc]
                 /\ pc' = IF HasAcctMgmt(variant) THEN "pam_acct_mgmt" ELSE "pam_end"
                 /\ UNCHANGED <<ret, stderr>>
    /\ UNCHANGED <<conc, variant, stdin, lines, username, password, username_len, password_len,
                   password_buf, heap, reply, local_auth, prompts, convLog>>

PamAcctMgmt ==
    /\ pc = "pam_acct_mgmt"
    /\ \E rc \in AcctCodes :
         /\ status' = rc
         /\ IF Failed(rc)
            THEN /\ events' = events \o <<Event("pam_acct_mgmt", local_auth, rc, AuthFlags, <<>>),
                                          Event("pam_strerror", local_auth, rc, {}, <<>>)>>
                 /\ pc' = "done"
                 /\ ret' = AcctErr(rc)
            ELSE /\ events' = Append(events, Event("pam_acct_mgmt", local_auth, rc, AuthFlags, <<>>))
                 /\ pc' = "pam_end"
                 /\ ret' = ret
    /\ UNCHANGED <<conc, variant, stdin, lines, username, password, username_len, password_len,
                   password_buf, heap, reply, local_auth, prompts, convLog, stderr>>

\* pam_end(local_auth, status); when it fails the session may or may not
\* have been torn down
PamEnd ==
    /\ pc = "pam_end"
    /\ \E rc \in EndCodes, h \in {"open", "closed"} :
         /\ rc = PAM_SUCCESS => h = "closed"
         /\ status' = rc
         /\ local_auth' = h
         /\ IF Failed(rc)
            THEN /\ events' = events \o <<Event("pam_end", local_auth, rc, {}, <<status>>),
                                          Event("pam_strerror", h, rc, {}, <<>>)>>
                 /\ Return(EndErr(rc), RunEndFail(rc))
            ELSE /\ events' = Append(events, Event("pam_end", local_auth, rc, {}, <<status>>))
                 /\ Return(Success, RunSuccess)
    /\ pc' = "done"
    /\ UNCHANGED <<conc, variant, stdin, lines, username, password, username_len, password_len,
                   password_buf, heap, reply, prompts, convLog>>

Next ==
    \/ GetlineUsername
    \/ GetlinePassword
    \/ CutTrailingNewlines
    \/ MallocReply
    \/ PamStart
    \/ PamAuthenticate
    \/ ConvFunc
    \/ PamAuthenticateReturn
    \/ PamAcctMgmt
    \/ PamEnd

Spec == Init /\ [][Next]_vars

\* ---- reading the record of an attempt ----

Calls(op) == {i \in DOMAIN events : events[i].op = op}
Count(op) == Cardinality(Calls(op))

\* the result code of the (first) call of op, "none" if it was not called
Rc(op) == IF Calls(op) = {} THEN "none"
          ELSE events[CHOOSE i \in Calls(op) : \A j \in Calls(op) : i <= j].rc

Returned == pc = "done"
Embedded == ~ProcessShape(variant)
RejectCodes == {PAM_AUTH_ERR, PAM_USER_UNKNOWN}
SystemAuthCodes == AuthCodes \ ({PAM_SUCCESS} \cup RejectCodes)
AccountInvalidCodes == {PAM_ACCT_EXPIRED, PAM_AUTH_ERR, PAM_USER_UNKNOWN, PAM_NEW_AUTHTOK_REQD}

\* the attempt ended in SystemError tagged with op: status 2 and func_name op
\* (embedded), exit code 2 and one stderr line that starts with op (process)
Tagged(op) ==
    IF ProcessShape(variant)
    THEN ret.status = 2 /\ Len(stderr) = 1 /\ stderr[1][1] = op
    ELSE ret.status = 2 /\ ret.func_name = op

\* a line without its one trailing line terminator, if it has one
StripTerminator(line) ==
    IF line # <<>> /\ line[Len(line)] = "\n" THEN SubSeq(line, 1, Len(line) - 1) ELSE line

\* ---- claims ----

\* C1: every attempt that reaches the backend opens exactly one session and,
\* if the open succeeded, closes it exactly once, open before close,
\* whichever later step failed.
C1_OneOpenOneClose ==
    (Returned /\ Count("pam_start") > 0) =>
        /\ Count("pam_start") = 1
        /\ Rc("pam_start") = PAM_SUCCESS =>
             /\ Count("pam_end") = 1
             /\ \A i \in Calls("pam_start"), j \in Calls("pam_end") : i < j

\* C2: when authenticate returns, every response structure and the buffer
\* its resp field points to (the password buffer, or the copy made of it)
\* has been released exactly once: none leaked, none freed twice.
C2_ReleasedExactlyOnce ==
    Returned =>
        \A i \in DOMAIN heap :
            heap[i].kind = "response" =>
                /\ heap[i].frees = 1
                /\ heap[i].resp # 0 => heap[heap[i].resp].frees = 1

\* C3: in the process shape an unknown username and a wrong password give
\* the same observable output: exit code 1 and nothing on standard error.
C3_ProcessNoEnumeration ==
    (ProcessShape(variant) /\ Returned /\ Rc("pam_authenticate") \in RejectCodes) =>
        /\ ret = ExitCode(1)
        /\ stderr = <<>>

C3_Witness ==
    /\ ProcessShape(variant) /\ Returned
    /\ Rc("pam_authenticate") = PAM_USER_UNKNOWN
    /\ ret.status = 1

\* C4: in the embedded shape the result returned for a Rejected verification
\* is the same value for unknown-user and for wrong-password: status,
\* func_name and error_msg all agree with what the other code would give.
C4_EmbeddedNoEnumeration ==
    (Embedded /\ Returned /\ Rc("pam_authenticate") \in RejectCodes) =>
        \A other \in RejectCodes : ret = AuthErr(other)

\* C5: the verification step's result is classified for every code:
\* PAM_AUTH_ERR and PAM_USER_UNKNOWN give status 1, every other non-success
\* code gives status 2 tagged pam_authenticate, success goes on to the next step.
C5_AuthClassification ==
    Returned =>
        /\ Rc("pam_authenticate") \in RejectCodes => ret.status = 1
        /\ Rc("pam_authenticate") \in SystemAuthCodes => Tagged("pam_authenticate")
        /\ Rc("pam_authenticate") = PAM_SUCCESS =>
             IF HasAcctMgmt(variant) THEN Count("pam_acct_mgmt") = 1 ELSE Count("pam_end") = 1

C5_Witness ==
    /\ Returned
    /\ Rc("pam_authenticate") = PAM_MAXTRIES
    /\ Tagged("pam_authenticate")

\* C6: with the account check enabled, an account the backend reports as
\* invalid (expired, disabled, unknown, new credential required) is Rejected:
\* status 1.
C6_InvalidAccountRejected ==
    (HasAcctMgmt(variant) /\ Returned /\ Rc("pam_acct_mgmt") \in AccountInvalidCodes) =>
        ret.status = 1

\* C7: a system-level failure of each backend step is a SystemError tagged
\* with that step: pam_start, pam_authenticate, pam_acct_mgmt, pam_end; in
\* the process shape exit code 2 and a stderr line naming the operation.
C7_SystemErrorTagged ==
    Returned =>
        /\ Rc("pam_start") \in StartCodes \ {PAM_SUCCESS} => Tagged("pam_start")
        /\ Rc("pam_authenticate") \in SystemAuthCodes => Tagged("pam_authenticate")
        /\ Rc("pam_acct_mgmt") \in AcctCodes \ ({PAM_SUCCESS} \cup AccountInvalidCodes) =>
             Tagged("pam_acct_mgmt")
        /\ Rc("pam_end") \in EndCodes \ {PAM_SUCCESS} => Tagged("pam_end")

C7_Witness ==
    /\ Returned
    /\ Rc("pam_end") = PAM_SYSTEM_ERR
    /\ Tagged("pam_end")

\* C8: in the process shape the exit code is 0 exactly for Success, 1 exactly
\* for Rejected and 2 exactly for a system-level error (missing input,
\* allocation failure, backend open/verify/close failure), and standard
\* error has a line if and only if the exit code is 2.
C8_InputMissing == username_len < 0 \/ password_len < 0
C8_AllocationFailed == Rc("pam_start") = PAM_SUCCESS /\ reply = 0
C8_BackendFailed ==
    \/ Rc("pam_start") \in StartCodes \ {PAM_SUCCESS}
    \/ Rc("pam_authenticate") \in SystemAuthCodes
    \/ Rc("pam_end") \in EndCodes \ {PAM_SUCCESS}
C8_ExitCodes ==
    (ProcessShape(variant) /\ Returned) =>
        /\ ret.status \in {0, 1, 2}
        /\ ret.status = 0 <=> (Rc("pam_authenticate") = PAM_SUCCESS /\ Rc("pam_end") = PAM_SUCCESS)
        /\ ret.status = 1 <=> Rc("pam_authenticate") \in RejectCodes
        /\ ret.status = 2 <=> (C8_InputMissing \/ C8_AllocationFailed \/ C8_BackendFailed)
        /\ stderr # <<>> <=> ret.status = 2
        /\ Len(stderr) <= 1

C8_Witness ==
    /\ ProcessShape(variant) /\ Returned
    /\ C8_AllocationFailed
    /\ ret.status = 2
    /\ stderr = <<RunMallocFail.err>>

\* C9: if the stream ends or fails before two lines were read, the process
\* exits with 2, reports the read failure on standard error and never calls
\* the backend.
C9_ReadFailure ==
    (ProcessShape(variant) /\ (username_len < 0 \/ password_len < 0)) =>
        /\ Returned
        /\ ret.status = 2
        /\ Len(stderr) = 1
        /\ stderr[1][1] = (IF username_len < 0 THEN "getline username" ELSE "getline password")
        /\ events = <<>>
        /\ local_auth = "null"

C9_Witness ==
    /\ ProcessShape(variant) /\ Returned
    /\ username_len > 0
    /\ password_len < 0
    /\ ret.status = 2
    /\ events = <<>>

\* C10: the username and password handed to the backend are the two lines
\* with exactly one trailing line terminator removed and nothing else; a
\* final line without a terminator keeps every character.
C10_ExactlyOneTerminator ==
    (ProcessShape(variant) /\ Len(lines) = 2
        /\ pc \notin {"getline_username", "getline_password", "cut"}) =>
        /\ username = StripTerminator(lines[1])
        /\ password = StripTerminator(lines[2])
        /\ \A i \in Calls("pam_start") : events[i].arg = StripTerminator(lines[1])
        /\ \A k \in DOMAIN convLog : convLog[k].text = StripTerminator(lines[2])

\* C11 (as stated): an attempt whose password is empty passes the
\* reject-empty-credential flag to the verification and account-check steps
\* and its outcome is Rejected.
C11_FlagPassed ==
    \A i \in Calls("pam_authenticate") \cup Calls("pam_acct_mgmt") :
        "PAM_DISALLOW_NULL_AUTHTOK" \in events[i].flags
C11_EmptyAlwaysRejected ==
    (Returned /\ events # <<>> /\ password = <<>>) =>
        /\ C11_FlagPassed
        /\ ret.status = 1

\* C11 (amended): every verification and account-check call carries the
\* reject-empty-credential flag, and against a backend that honours the flag
\* an attempt whose password is empty never ends in Success: it is Rejected,
\* or SystemError exactly when an allocation failed or a backend step failed
\* with a system-level code.
C11_EmptyNeverSuccess ==
    /\ C11_FlagPassed
    /\ (Returned /\ events # <<>> /\ password = <<>>) =>
         /\ ret.status \in {1, 2}
         /\ Rc("pam_acct_mgmt") = "none" /\ Rc("pam_end") = "none"
         /\ ret.status = 1 <=> Rc("pam_authenticate") \in RejectCodes
         /\ ret.status = 2 <=>
              \/ Rc("pam_start") \in StartCodes \ {PAM_SUCCESS}
              \/ Rc("pam_authenticate") \in SystemAuthCodes
              \/ (ProcessShape(variant) /\ Rc("pam_start") = PAM_SUCCESS /\ reply = 0)

C11_Witness ==
    /\ Returned
    /\ password = <<>>
    /\ convLog # <<>>
    /\ convLog[1].text = <<>>
    /\ Rc("pam_authenticate") = PAM_AUTH_ERR
    /\ ret.status = 1

\* C12: when an allocation inside the conversation adapter fails, the
\* adapter returns a conversation-level failure, the engine reports
\* SystemError tagged Allocation (not a verification failure), and the
\* engine still closes the session before it returns.
C12_AllocationFailurePropagates ==
    (CopyingConv(variant) /\ Returned /\ ConvFailed) =>
        /\ convLog[Len(convLog)].rc = PAM_CONV_ERR
        /\ ret.status = 2
        /\ ret.func_name = "malloc"
        /\ Count("pam_end") = 1

\* the operations of the backend calls made so far, and their result codes
OpsCalled == [i \in DOMAIN events |-> events[i].op]
Steps == {i \in DOMAIN events : events[i].op # "pam_strerror"}
AllSucceeded == \A i \in Steps : events[i].rc = PAM_SUCCESS

\* C13: a result with status 0 has func_name and error_msg absent, and is
\* returned only when open, verification, account check (when the revision
\* has one) and close were called in that order and all returned success.
C13_SuccessResult ==
    (Embedded /\ Returned /\ ret.status = 0) =>
        /\ ret.func_name = NULL
        /\ ret.error_msg = NULL
        /\ OpsCalled = (IF HasAcctMgmt(variant)
                        THEN <<"pam_start", "pam_authenticate", "pam_acct_mgmt", "pam_end">>
                        ELSE <<"pam_start", "pam_authenticate", "pam_end">>)
        /\ AllSucceeded

C13_Witness ==
    /\ Embedded /\ Returned
    /\ HasAcctMgmt(variant)
    /\ ret = Success
    /\ Count("pam_end") = 1

\* C15: the steps run in strict sequence and stop at the first failure:
\* verification only after a successful open, the account check only after
\* a successful verification, and no verification or account check after
\* any step returned a non-success code.
C15_StrictSequence ==
    /\ \A i \in Calls("pam_authenticate") :
         \E j \in Calls("pam_start") : j < i /\ events[j].rc = PAM_SUCCESS
    /\ \A i \in Calls("pam_acct_mgmt") :
         \E j \in Calls("pam_authenticate") : j < i /\ events[j].rc = PAM_SUCCESS
    /\ \A i \in Steps :
         events[i].rc \notin {PAM_SUCCESS, "pending"} =>
             \A j \in Steps : j > i => events[j].op \notin {"pam_authenticate", "pam_acct_mgmt"}
    /\ Count("pam_start") <= 1 /\ Count("pam_authenticate") <= 1 /\ Count("pam_acct_mgmt") <= 1

C15_Witness ==
    /\ Returned
    /\ HasAcctMgmt(variant)
    /\ Rc("pam_start") = PAM_SUCCESS
    /\ Rc("pam_authenticate") = PAM_MAXTRIES
    /\ Count("pam_acct_mgmt") = 0

\* C16: at every prompt the conversation adapter returns success together
\* with the supplied password, and the response it hands over is valid at
\* that moment: the backend has not already been handed it and released it.
C16_ResponsesValid ==
    \A k \in DOMAIN convLog :
        /\ ~convLog[k].stale
        /\ convLog[k].rc = PAM_SUCCESS => (convLog[k].resp # 0 /\ convLog[k].text = password)

\* the texts the backend has for its result codes
BackendTexts == {pam_strerror(c) : c \in StartCodes \cup AuthCodes \cup AcctCodes \cup EndCodes}
OperationNames == {"pam_start", "pam_authenticate", "pam_acct_mgmt", "pam_end", "malloc"}

\* C17: the password is in no diagnostic: func_name is a fixed operation
\* name, error_msg is the backend's text for the last status (or the fixed
\* allocation message), and every stderr line is a fixed prefix followed,
\* at most, by the backend's or the C library's text.
C17_NoPasswordInDiagnostics ==
    /\ ret.func_name \in OperationNames \cup {NULL}
    /\ ret.error_msg \in {NULL, "Out of memory", pam_strerror(status)}
    /\ ret.error_msg \in BackendTexts \cup {NULL, "Out of memory"}
    /\ \A k \in DOMAIN stderr :
         \/ stderr[k] = <<"malloc returned NULL">>
         \/ stderr[k] \in {perror("getline username"), perror("getline password")}
         \/ /\ Len(stderr[k]) = 2
            /\ stderr[k][1] \in OperationNames
            /\ stderr[k][2] = pam_strerror(status)

C17_Witness ==
    /\ Returned
    /\ password # <<>>
    /\ username # <<>>
    /\ ret = ErrorObj(2, "pam_start", pam_strerror(PAM_BUF_ERR))

\* C18: when the copying conversation adapter returns PAM_CONV_ERR it holds
\* no allocation of its own: a response structure it allocated was either
\* handed to the backend (which released it) or released by the adapter.
C18_NoAllocationHeldOnFailure ==
    CopyingConv(variant) =>
        \A i \in DOMAIN heap :
            heap[i].kind = "response" => heap[i].frees >= 1

\* C19: once pam_end has been called, no later backend call of the attempt
\* (pam_strerror for a close failure included) takes that handle.
C19_NoUseAfterClose ==
    \A i \in Calls("pam_end") :
        \A j \in DOMAIN events : j > i => events[j].h = "null"

\* ---- two concurrent calls of run_pam_auth (embedded revisions) ----
\* Each call has its own arguments, locals and session; the calls share the
\* C heap.  A chunk is [resp, live]: whose password its resp field points
\* to, and whether it is allocated.

Chunk(owner) == [resp |-> owner, live |-> TRUE]

\* malloc: NULL (0), a chunk released earlier, or a fresh one
AllocChoices(h) ==
    {0} \cup {i \in DOMAIN h : ~h[i].live}
        \cup (IF Len(h) < MaxChunks THEN {Len(h) + 1} ELSE {})

Place(h, i, owner) ==
    IF i = Len(h) + 1 THEN Append(h, Chunk(owner)) ELSE [h EXCEPT ![i] = Chunk(owner)]

\* free, by the backend
Free(h, i) == [h EXCEPT ![i].live = FALSE]

ConcVariants == Variants \ {"process"}
ConcPassword(t) == IF t = 1 THEN <<"a">> ELSE <<"b">>

InitConc ==
    /\ variant \in ConcVariants
    /\ pc = "concurrent"
    /\ stdin = <<>>
    /\ lines = <<>>
    /\ username = <<>>
    /\ password = <<>>
    /\ username_len = 0
    /\ password_len = 0
    /\ password_buf = 0
    /\ heap = <<>>
    /\ reply = 0
    /\ local_auth = "null"
    /\ status = PAM_SUCCESS
    /\ prompts = 0
    /\ convLog = <<>>
    /\ events = <<>>
    /\ ret = NoRet
    /\ stderr = <<>>
    /\ conc = [ConcIdle EXCEPT
                 !.pc = [t \in Threads |-> IF CopyingConv(variant) THEN "pam_start" ELSE "malloc"],
                 !.password = [t \in Threads |-> ConcPassword(t)]]

ConcUnchanged ==
    UNCHANGED <<variant, pc, stdin, lines, username, password, username_len, password_len,
                password_buf, heap, reply, local_auth, status, prompts, convLog, events,
                ret, stderr>>

\* `reply = malloc(...)`, `reply->resp = password` of call t
ConcMallocReply(t) ==
    /\ conc.pc[t] = "malloc"
    /\ \E c \in AllocChoices(conc.heap) :
         IF c = 0
         THEN conc' = [conc EXCEPT !.pc[t] = "done", !.ret[t] = MallocErr]
         ELSE conc' = [conc EXCEPT !.pc[t] = "pam_start", !.reply[t] = c,
                                   !.heap = Place(conc.heap, c, t)]
    /\ ConcUnchanged

\* `local_conv = { conv_func, reply }` (or password), pam_start of call t
ConcPamStart(t) ==
    /\ conc.pc[t] = "pam_start"
    /\ \E rc \in StartCodes :
         IF Failed(rc)
         THEN conc' = [conc EXCEPT !.pc[t] = "done", !.ret[t] = StartErr(rc)]
         ELSE conc' = [conc EXCEPT !.pc[t] = "pam_authenticate", !.appdata[t] = conc.reply[t]]
    /\ ConcUnchanged

ConcPamAuthenticate(t) ==
    /\ conc.pc[t] = "pam_authenticate"
    /\ \E n \in 0..MaxPrompts :
         conc' = [conc EXCEPT !.pc[t] = "in_authenticate", !.prompts[t] = n]
    /\ ConcUnchanged

\* the backend prompts in the session of call t.  Copying conv_func: two
\* mallocs, a copy of this call's password, released by the backend.
\* Hand-over conv_func: the chunk appdata_ptr points to, as it is now; once
\* the backend has released it the pointer dangles, and the chunk may have
\* been allocated again by the other call, or the process is aborted.
ConcConvFunc(t) ==
    /\ conc.pc[t] = "in_authenticate"
    /\ conc.prompts[t] > 0
    /\ ~conc.conv_err[t]
    /\ IF CopyingConv(variant)
       THEN \E c1 \in AllocChoices(conc.heap) :
              IF c1 = 0
              THEN conc' = [conc EXCEPT !.conv_err[t] = TRUE]
              ELSE LET h1 == Place(conc.heap, c1, t) IN
                   \E c2 \in AllocChoices(h1) :
                     IF c2 = 0
                     THEN conc' = [conc EXCEPT !.conv_err[t] = TRUE, !.heap = h1]
                     ELSE LET h2 == Place(h1, c2, t) IN
                          conc' = [conc EXCEPT !.prompts[t] = @ - 1,
                                               !.supplied[t] = Append(@, h2[c2].resp),
                                               !.heap = Free(Free(h2, c1), c2)]
       ELSE \E abort \in BOOLEAN :
              LET c == conc.appdata[t] IN
              IF conc.released[t] /\ abort
              THEN conc' = [conc EXCEPT !.pc = [u \in Threads |-> "aborted"]]
              ELSE conc' = [conc EXCEPT !.prompts[t] = @ - 1,
                                        !.supplied[t] = Append(@, conc.heap[c].resp),
                                        !.released[t] = TRUE,
                                        !.heap = Free(conc.heap, c)]
    /\ ConcUnchanged

ConcPamAuthenticateReturn(t) ==
    /\ conc.pc[t] = "in_authenticate"
    /\ conc.prompts[t] = 0 \/ conc.conv_err[t]
    /\ \E rc \in AuthCodes :
         /\ conc.conv_err[t] => rc # PAM_SUCCESS
         /\ IF Failed(rc)
            THEN conc' = [conc EXCEPT !.pc[t] = "done", !.ret[t] = AuthErr(rc)]
            ELSE conc' = [conc EXCEPT !.pc[t] = IF HasAcctMgmt(variant) THEN "pam_acct_mgmt"
                                                ELSE "pam_end"]
    /\ ConcUnchanged

ConcPamAcctMgmt(t) ==
    /\ conc.pc[t] = "pam_acct_mgmt"
    /\ \E rc \in AcctCodes :
         IF Failed(rc)
         THEN conc' = [conc EXCEPT !.pc[t] = "done", !.ret[t] = AcctErr(rc)]
         ELSE conc' = [conc EXCEPT !.pc[t] = "pam_end"]
    /\ ConcUnchanged

ConcPamEnd(t) ==
    /\ conc.pc[t] = "pam_end"
    /\ \E rc \in EndCodes :
         conc' = [conc EXCEPT !.pc[t] = "done",
                              !.ret[t] = IF Failed(rc) THEN EndErr(rc) ELSE Success]
    /\ ConcUnchanged

NextConc ==
    \E t \in Threads :
        \/ ConcMallocReply(t)
        \/ ConcPamStart(t)
        \/ ConcPamAuthenticate(t)
        \/ ConcConvFunc(t)
        \/ ConcPamAuthenticateReturn(t)
        \/ ConcPamAcctMgmt(t)
        \/ ConcPamEnd(t)

SpecConc == InitConc /\ [][NextConc]_vars

\* C14: two concurrent embedded calls share no mutable state: in every
\* interleaving the conversation adapter of a call supplies only that
\* call's own password to its own session.
C14_OwnPasswordOnly ==
    \A t \in Threads :
        \A k \in DOMAIN conc.supplied[t] : conc.supplied[t][k] = t

====
